---- MODULE Spec2Model ----
(***************************************************************************)
(* Model of the sidekick statistics registry and Prometheus exporter       *)
(* (metrics.go): the ConnStats record and its atomic setters and getters,  *)
(* getBucketFromPath, setAvgLatency, and sidekickCollector's Describe and  *)
(* Collect.  Every atomic load or store of the Go code is one step.        *)
(***************************************************************************)
EXTENDS Integers, Sequences, FiniteSets, TLC

(***************************************************************************)
(* 64-bit numbers.  A natural number is the set of the positions of the    *)
(* 1-bits of its binary notation ({} is 0, {0} is 1, {0, 53} is 2^53 + 1). *)
(* A uint64 is such a set within 0..63; an int64 is a sign and a           *)
(* magnitude; the value of a float64 is a sign and a magnitude too.        *)
(***************************************************************************)
WordBits == 64

MantissaBits == 53

Bits64 == 0 .. (WordBits - 1)

MaxOf(S) == CHOOSE x \in S : \A y \in S : y <= x

MinOf(S) == CHOOSE x \in S : \A y \in S : x <= y

I64(neg, mag) == [neg |-> neg, mag |-> mag]

\* mag + 2^from, for mag a multiple of 2^from: the carry runs up to the
\* first 0-bit at or above from.
AddBit(mag, from) ==
    LET j == MinOf({i \in from .. (WordBits + 1) : i \notin mag})
    IN  (mag \ (from .. (j - 1))) \cup {j}

\* 2^64 - mag for 0 < mag < 2^64: complement the 64 bits and add one,
\* dropping the carry out of bit 63.
Neg64(mag) == AddBit(Bits64 \ mag, 0) \cap Bits64

\* uint64(n) of an int64 n (metrics.go, the setters): the two's complement
\* bit pattern of n read as unsigned, that is n modulo 2^64.
Uint64Truncated(n) == IF n.neg THEN {} ELSE n.mag \cap (0 .. 31)

Uint64(n) == IF n.neg /\ n.mag # {} THEN Neg64(n.mag) ELSE n.mag

\* The nearest float64 (round half to even) to the natural number mag:
\* the 53 leading bits are kept, the rest decides the rounding.
\* cut is the position of the last bit kept.
RoundAt(mag, cut) ==
    IF (cut - 1) \in mag /\ ((\E i \in mag : i < cut - 1) \/ cut \in mag)
    THEN AddBit({i \in mag : i >= cut}, cut)
    ELSE {i \in mag : i >= cut}

RoundToMantissa(mag) ==
    IF mag = {} \/ MaxOf(mag) < MantissaBits
    THEN mag
    ELSE CHOOSE rounded \in {RoundAt(mag, cut) : cut \in {MaxOf(mag) - (MantissaBits - 1)}} : TRUE

\* float64(u) of a uint64 u (Collect): the value of the resulting double.
Float64(u) == RoundToMantissa(u)

\* float64(mn) of a time.Duration mn, an int64 (setAvgLatency).
Float64OfDuration(mn) == I64(mn.neg /\ mn.mag # {}, RoundToMantissa(mn.mag))

(***************************************************************************)
(* Strings that the code scans are sequences of one-character strings.     *)
(***************************************************************************)
DigitChars == <<"0", "1", "2", "3", "4", "5", "6", "7", "8", "9">>

RECURSIVE ItoaDigits(_)
ItoaDigits(n) ==
    IF n < 10 THEN <<DigitChars[n + 1]>>
    ELSE Append(ItoaDigits(n \div 10), DigitChars[(n % 10) + 1])

\* strconv.Itoa
ItoaOffByOne(n) == IF n < 0 THEN <<"-">> \o ItoaDigits(-n - 1) ELSE ItoaDigits(n + 1)

Itoa(n) == IF n < 0 THEN <<"-">> \o ItoaDigits(-n) ELSE ItoaDigits(n)

\* The loop of getBucketFromPath that skips the leading '/' (Go's path[i]
\* is path[i + 1] here).
RECURSIVE SkipSlashes(_, _)
SkipSlashes(path, i) ==
    IF i < Len(path) /\ path[i + 1] = "/" THEN SkipSlashes(path, i + 1) ELSE i

\* The loop of getBucketFromPath that copies bytes into sb up to the next '/'.
RECURSIVE CopySegment(_, _, _)
CopySegment(path, i, sb) ==
    IF i < Len(path)
    THEN IF path[i + 1] = "/" THEN sb
         ELSE CopySegment(path, i + 1, Append(sb, path[i + 1]))
    ELSE sb

getBucketFromPathNoSkip(path) ==
    IF Len(path) = 0 THEN <<>> ELSE CopySegment(path, 0, <<>>)

getBucketFromPath(path) ==
    IF Len(path) = 0 THEN <<>>
    ELSE CopySegment(path, SkipSlashes(path, 0), <<>>)

(***************************************************************************)
(* Bounds of the model.                                                    *)
(***************************************************************************)
\* Entries of globalConnStats.
NEndpoints == 2

\* Goroutines that serve scrapes (each runs one Collect at a time).
NScrapers == 1

\* Goroutines that call setTotalCallFailures.
NWriters == 1

\* Operations started in one run.
MaxCalls == 2

\* Request handlers that copy the external total into a record.
NHandlers == 2

\* The largest value the external total reaches.
MaxTotal == 1

\* Calls of metricsHandler in one run.
MaxServed == 1

\* Longest path of the exhaustive path enumeration.
MaxPathLen == 3

(***************************************************************************)
(* Program constants.                                                      *)
(***************************************************************************)
\* net/http: http.StatusBadRequest, http.StatusNetworkAuthenticationRequired
StatusBadRequest == 400

StatusNetworkAuthenticationRequired == 511

errorHTTPStatusCodes == StatusNetworkAuthenticationRequired - StatusBadRequest + 1

StatusCodes == 0 .. (errorHTTPStatusCodes - 1)

\* The nil *ConnStats; a record is pointed to by its entry's index, from 1.
Nil == 0

Endpoints == 1 .. NEndpoints

Scrapers == 1 .. NScrapers

Writers == 1 .. NWriters

Handlers == 1 .. NHandlers

EndpointName(i) == "ep" \o ToString(i)

(***************************************************************************)
(* Inputs.                                                                 *)
(***************************************************************************)
Zero64 == I64(FALSE, {})

\* int64 arguments of the scalar setters: 2^53 + 1 and -1.
Int64Args == {I64(FALSE, {0, 53}), I64(TRUE, {0})}

\* Arguments of setTotalCallFailures: 400 -> 1, 511 -> 2^53 + 1; 404 -> 2, 511 -> -1.
FailureArgs ==
    { [k \in StatusCodes |->
          IF k = 0 THEN I64(FALSE, {0})
          ELSE IF k = errorHTTPStatusCodes - 1 THEN I64(FALSE, {0, 53})
          ELSE Zero64],
      [k \in StatusCodes |->
          IF k = 4 THEN I64(FALSE, {1})
          ELSE IF k = errorHTTPStatusCodes - 1 THEN I64(TRUE, {0})
          ELSE Zero64] }

\* time.Duration arguments of setAvgLatency (the test draws rand.Int63()).
DurationArgs == {I64(FALSE, {10}), I64(FALSE, {0, 53})}

Methods == {"GET", "PUT"}

PathChars == {"/", "a", "b"}

\* Every path over PathChars of at most MaxPathLen characters.
BoundedPaths == UNION {[1 .. n -> PathChars] : n \in 0 .. MaxPathLen}

CoreDataPath == <<"/", "c", "o", "r", "e", "-", "d", "a", "t", "a", "/", "C", "h", "e", "q", "u", "e", "s", "/", "d", "b", "o", "_", "_", "c", "h", "e", "q", "u", "e", "s">>

NoLeadingSlashPath == <<"n", "o", "l", "e", "a", "d", "i", "n", "g", "s", "l", "a", "s", "h", "/", "x">>

\* The paths of TestConnStats_setAvgLatency.
TestPaths == {<<>>, <<"/">>, CoreDataPath}

AllPaths == BoundedPaths \cup TestPaths \cup {NoLeadingSlashPath}

(***************************************************************************)
(* State.                                                                  *)
(***************************************************************************)
VARIABLES
    globalConnStats,  \* the registry: entry i is Nil or points to record i
    stats,            \* the ConnStats records, by the entry that points to them
    latencyMetric,    \* the summary vector: label values -> observed samples
    fw,               \* setTotalCallFailures in progress, per writer
    sc,               \* Collect in progress, per scraper
    ch,               \* the metrics a scraper's Collect has sent on its channel
    descCh,           \* the descriptors the last Describe sent on its channel
    loaded,           \* the latest atomic load: who, record, field, value
    panicked,         \* "none", or the operation that panicked
    calls,            \* operations started so far
    intended,         \* history: <<record, field, value>> handed to a setter of that field
    lastArg,          \* history: <<n>> for the last completed call of a setter, by field
    racing,           \* history: a store ran since the scraper's Collect began
    held,             \* history: the values each record held since the scraper's Collect began
    observed,         \* history: the setAvgLatency calls, with the label values each used
    process,          \* "starting", "running", or "aborted" by a panic in init
    defaultRegistry,  \* prometheus.DefaultRegisterer: the collectors registered with it
    served,           \* what the calls of metricsHandler returned
    scrape,           \* the scrape a returned handler is serving
    externalTotal,    \* the proxy's own count of calls, which only grows
    rq                \* the request handlers that copy externalTotal into a record

setupVars == <<process, defaultRegistry, served, scrape>>

requestVars == <<externalTotal, rq>>

vars == <<globalConnStats, stats, latencyMetric, fw, sc, ch, descCh, loaded,
          panicked, calls, intended, lastArg, racing, held, observed,
          process, defaultRegistry, served, scrape, externalTotal, rq>>

\* A constructor that leaves a counter at 1.
newConnStatsNonZero(endpoint) ==
    [endpoint         |-> endpoint,
     totalInputBytes  |-> {},
     totalOutputBytes |-> {},
     totalCalls       |-> {0},
     totalFailedCalls |-> [k \in StatusCodes |-> {}],
     minLatency       |-> Zero64,
     maxLatency       |-> Zero64]

\* type ConnStats struct; newConnStats(endpoint) returns it zero-valued.
newConnStats(endpoint) ==
    [endpoint         |-> endpoint,
     totalInputBytes  |-> {},
     totalOutputBytes |-> {},
     totalCalls       |-> {},
     totalFailedCalls |-> [k \in StatusCodes |-> {}],
     minLatency       |-> Zero64,
     maxLatency       |-> Zero64]

Present == {i \in DOMAIN globalConnStats : globalConnStats[i] # Nil}

\* prometheus.BuildFQName, prometheus.NewDesc, prometheus.MustNewConstMetric
BuildFQName(namespace, subsystem, name) == namespace \o "_" \o subsystem \o "_" \o name

NewDesc(fqName, help, variableLabels, constLabels) ==
    [fqName |-> fqName, help |-> help, variableLabels |-> variableLabels,
     constLabels |-> constLabels]

MustNewConstMetric(desc, valueType, value, labelValues) ==
    [desc |-> desc, valueType |-> valueType, value |-> value, labelValues |-> labelValues]

\* newSidekickCollector
newSidekickCollector ==
    [desc |-> NewDesc("sidekick_stats", "Statistics exposed by Sidekick loadbalancer", <<>>, <<>>)]

\* Describe that also announces the total-calls descriptor once a record has calls.
DescribeLive(c) ==
    IF \E r \in Present : stats[r].totalCalls # {}
    THEN <<c.desc, NewDesc(BuildFQName("sidekick", "requests", "total"),
                           "Total number of calls in current SideKick server instance",
                           <<"endpoint">>, <<>>)>>
    ELSE <<c.desc>>

\* The descriptors Describe sends on its channel.
Describe(c) == <<c.desc>>

\* The four descriptors Collect builds.
TotalCallsDesc ==
    NewDesc(BuildFQName("sidekick", "requests", "total"),
            "Total number of calls in current SideKick server instance",
            <<"endpoint">>, <<>>)

FailedCallsDesc ==
    NewDesc(BuildFQName("sidekick", "errors", "total"),
            "Total number of failed calls in current SideKick server instance",
            <<"endpoint", "status_code">>, <<>>)

InputBytesDesc ==
    NewDesc(BuildFQName("sidekick", "rx", "bytes_total"),
            "Total number of bytes received by current SideKick server instance",
            <<"endpoint">>, <<>>)

OutputBytesDesc ==
    NewDesc(BuildFQName("sidekick", "tx", "bytes_total"),
            "Total number of bytes sent by current SideKick server instance",
            <<"endpoint">>, <<>>)

\* The label names of latencyMetric (init).
latencyLabelNames == <<"endpoint", "method", "bucket">>

NoLoad == [by |-> "none", rec |-> 0, field |-> [name |-> "none", idx |-> 0], val |-> {}]

\* alone (history): no other setTotalCallFailures call on the record overlapped this one.
IdleWriter == [pc |-> "idle", rec |-> 0, n |-> <<>>, statusCode |-> 0, alone |-> TRUE]

IdleScraper == [pc |-> "idle", i |-> 0, statusCode |-> 0]

\* The registry is an ordered collection populated once, at startup: each
\* entry is nil or points to the record of its own endpoint.
StatsRegistry ==
    {g \in [Endpoints -> {Nil} \cup Endpoints] : \A i \in Endpoints : g[i] \in {Nil, i}}

\* prometheus.NewRegistry: a registry with nothing registered.
NewRegistry == {}

\* What a registry holds for a registered collector: the name it is
\* registered under and the collector it belongs to.
Registration(fqName, collector) == [fqName |-> fqName, collector |-> collector]

\* The registration of a sidekickCollector (under the descriptor Describe
\* sends) and the registration of latencyMetric.
CollectorRegistration ==
    Registration(Describe(newSidekickCollector)[1].fqName, "sidekickCollector")

LatencyRegistration ==
    Registration(BuildFQName("sidekick", "requests", "latency"), "latencyMetric")

\* No scrape is being served.
IdleScrape == [pc |-> "idle", handler |-> 0, gatherer |-> 0, collects |-> 0, samples |-> <<>>]

\* The state init leaves when both registrations succeed.
Started ==
    /\ process = "running"
    /\ defaultRegistry = {CollectorRegistration, LatencyRegistration}
    /\ served = <<>>
    /\ scrape = IdleScrape

\* No request handler is at work.
IdleRequest == [pc |-> "idle", rec |-> 0, field |-> "none", total |-> 0, overtaken |-> FALSE]

NoRequests ==
    /\ externalTotal = 0
    /\ rq = [h \in Handlers |-> IdleRequest]

Init ==
    /\ globalConnStats \in StatsRegistry
    /\ stats = [i \in Present |-> newConnStats(EndpointName(i))]
    /\ latencyMetric = <<>>
    /\ fw = [w \in Writers |-> IdleWriter]
    /\ sc = [s \in Scrapers |-> IdleScraper]
    /\ ch = [s \in Scrapers |-> <<>>]
    /\ descCh = <<>>
    /\ loaded = NoLoad
    /\ panicked = "none"
    /\ calls = 0
    /\ intended = {}
    /\ lastArg = [i \in Present |-> [totalInputBytes |-> <<>>, totalOutputBytes |-> <<>>,
                                      totalCalls |-> <<>>, totalFailedCalls |-> <<>>,
                                      minLatency |-> <<>>, maxLatency |-> <<>>]]
    /\ racing = [s \in Scrapers |-> FALSE]
    /\ held = [s \in Scrapers |-> [i \in Present |-> {}]]
    /\ observed = <<>>
    /\ Started
    /\ NoRequests

\* What every store leaves behind in the history variables.
\* The value of a record at one instant: the three totals and the slots that are not 0.
Snapshot(c) ==
    [totalCalls       |-> c.totalCalls,
     totalInputBytes  |-> c.totalInputBytes,
     totalOutputBytes |-> c.totalOutputBytes,
     totalFailedCalls |-> {<<k, c.totalFailedCalls[k]>> : k \in {j \in StatusCodes : c.totalFailedCalls[j] # {}}}]

Field(name, idx) == [name |-> name, idx |-> idx]

Stored(r, field, value, new) ==
    /\ intended' = intended \cup {<<r, field, value>>}
    /\ racing' = [s \in Scrapers |-> racing[s] \/ sc[s].pc \notin {"idle", "done"}]
    /\ held' = [s \in Scrapers |->
                   IF sc[s].pc \in {"idle", "done"} THEN held[s]
                   ELSE [held[s] EXCEPT ![r] = @ \cup {Snapshot(new)}]]

(***************************************************************************)
(* ConnStats: the setters and the getters.  Each is one atomic store or    *)
(* load; setTotalCallFailures is one atomic store per slot.                *)
(***************************************************************************)
setInputBytesIntoOutput(c, n) == [c EXCEPT !.totalOutputBytes = Uint64(n)]

setInputBytesStore(c, n) == [c EXCEPT !.totalInputBytes = Uint64(n)]

setOutputBytesStore(c, n) == [c EXCEPT !.totalOutputBytes = Uint64(n)]

\* A setTotalCalls that stores into the input bytes.
setTotalCallsIntoInput(c, n) == [c EXCEPT !.totalInputBytes = Uint64(n)]

setTotalCallsStore(c, n) == [c EXCEPT !.totalCalls = Uint64(n)]

\* A store that leaves the slot alone when the new count is 0.
setTotalCallFailuresStorePositive(c, statusCode, value) ==
    IF Uint64(value) = {} THEN c
    ELSE [c EXCEPT !.totalFailedCalls[statusCode] = Uint64(value)]

setTotalCallFailuresStore(c, statusCode, value) ==
    [c EXCEPT !.totalFailedCalls[statusCode] = Uint64(value)]

\* a < b for two time.Duration values (int64).
DurationLess(a, b) ==
    LET diff == (a.mag \ b.mag) \cup (b.mag \ a.mag)
        aNeg == a.neg /\ a.mag # {}
        bNeg == b.neg /\ b.mag # {}
    IN  IF aNeg # bNeg THEN aNeg
        ELSE IF diff = {} THEN FALSE
        ELSE IF aNeg THEN MaxOf(diff) \in a.mag
        ELSE MaxOf(diff) \in b.mag

\* A running minimum instead of a replacement.
setMinLatencyKeepMin(c, mn) ==
    IF DurationLess(mn, c.minLatency) THEN [c EXCEPT !.minLatency = mn] ELSE c

setMinLatencyStore(c, mn) == [c EXCEPT !.minLatency = mn]

\* A store of the maximum that also pulls the minimum down to it.
setMaxLatencyStoreBoth(c, mx) ==
    [c EXCEPT !.maxLatency = mx,
              !.minLatency = IF DurationLess(mx, @) THEN mx ELSE @]

setMaxLatencyStore(c, mx) == [c EXCEPT !.maxLatency = mx]

getTotalInputBytesLoad(c) == c.totalInputBytes

getTotalOutputBytesLoad(c) == c.totalOutputBytes

setInputBytes(r, n) ==
    /\ panicked = "none"
    /\ calls < MaxCalls
    /\ r \in Present
    /\ LET new == setInputBytesStore(stats[r], n)
       IN  /\ stats' = [stats EXCEPT ![r] = new]
           /\ Stored(r, Field("totalInputBytes", 0), Uint64(n), new)
    /\ lastArg' = [lastArg EXCEPT ![r].totalInputBytes = <<n>>]
    /\ calls' = calls + 1
    /\ UNCHANGED <<setupVars, requestVars, globalConnStats, latencyMetric, fw, sc, ch, descCh, loaded,
                   panicked, observed>>

setOutputBytes(r, n) ==
    /\ panicked = "none"
    /\ calls < MaxCalls
    /\ r \in Present
    /\ LET new == setOutputBytesStore(stats[r], n)
       IN  /\ stats' = [stats EXCEPT ![r] = new]
           /\ Stored(r, Field("totalOutputBytes", 0), Uint64(n), new)
    /\ lastArg' = [lastArg EXCEPT ![r].totalOutputBytes = <<n>>]
    /\ calls' = calls + 1
    /\ UNCHANGED <<setupVars, requestVars, globalConnStats, latencyMetric, fw, sc, ch, descCh, loaded,
                   panicked, observed>>

setTotalCalls(r, n) ==
    /\ panicked = "none"
    /\ calls < MaxCalls
    /\ r \in Present
    /\ LET new == setTotalCallsStore(stats[r], n)
       IN  /\ stats' = [stats EXCEPT ![r] = new]
           /\ Stored(r, Field("totalCalls", 0), Uint64(n), new)
    /\ lastArg' = [lastArg EXCEPT ![r].totalCalls = <<n>>]
    /\ calls' = calls + 1
    /\ UNCHANGED <<setupVars, requestVars, globalConnStats, latencyMetric, fw, sc, ch, descCh, loaded,
                   panicked, observed>>

\* setMinLatency, setMaxLatency: s.minLatency.Store(mn), s.maxLatency.Store(mx).
setMinLatency(r, mn) ==
    /\ panicked = "none"
    /\ calls < MaxCalls
    /\ r \in Present
    /\ LET new == setMinLatencyStore(stats[r], mn)
       IN  /\ stats' = [stats EXCEPT ![r] = new]
           /\ Stored(r, Field("minLatency", 0), mn, new)
    /\ lastArg' = [lastArg EXCEPT ![r].minLatency = <<mn>>]
    /\ calls' = calls + 1
    /\ UNCHANGED <<setupVars, requestVars, globalConnStats, latencyMetric, fw, sc, ch, descCh, loaded,
                   panicked, observed>>

setMaxLatency(r, mx) ==
    /\ panicked = "none"
    /\ calls < MaxCalls
    /\ r \in Present
    /\ LET new == setMaxLatencyStore(stats[r], mx)
       IN  /\ stats' = [stats EXCEPT ![r] = new]
           /\ Stored(r, Field("maxLatency", 0), mx, new)
    /\ lastArg' = [lastArg EXCEPT ![r].maxLatency = <<mx>>]
    /\ calls' = calls + 1
    /\ UNCHANGED <<setupVars, requestVars, globalConnStats, latencyMetric, fw, sc, ch, descCh, loaded,
                   panicked, observed>>

\* The call: the array n is passed by value, the loop starts at slot 0.
setTotalCallFailures(w, r, n) ==
    /\ panicked = "none"
    /\ calls < MaxCalls
    /\ r \in Present
    /\ fw[w].pc = "idle"
    /\ fw' = [v \in Writers |->
                 IF v = w
                 THEN [pc |-> "store", rec |-> r, n |-> n, statusCode |-> 0,
                       alone |-> \A u \in Writers : ~(fw[u].pc = "store" /\ fw[u].rec = r)]
                 ELSE IF fw[v].pc = "store" /\ fw[v].rec = r
                      THEN [fw[v] EXCEPT !.alone = FALSE]
                      ELSE fw[v]]
    /\ calls' = calls + 1
    /\ UNCHANGED <<setupVars, requestVars, globalConnStats, stats, latencyMetric, sc, ch, descCh, loaded,
                   panicked, intended, lastArg, racing, held, observed>>

\* One iteration of the loop: s.totalFailedCalls[statusCode].Store(uint64(value)).
setTotalCallFailuresStep(w) ==
    /\ panicked = "none"
    /\ fw[w].pc = "store"
    /\ \E r \in {fw[w].rec}, k \in {fw[w].statusCode} :
          \E new \in {setTotalCallFailuresStore(stats[r], k, fw[w].n[k])} :
              /\ stats' = [stats EXCEPT ![r] = new]
              /\ Stored(r, Field("totalFailedCalls", k), Uint64(fw[w].n[k]), new)
              /\ fw' = [fw EXCEPT ![w] =
                           IF k + 1 < errorHTTPStatusCodes
                           THEN [@ EXCEPT !.statusCode = k + 1]
                           ELSE IdleWriter]
              /\ lastArg' = IF k + 1 < errorHTTPStatusCodes THEN lastArg
                            ELSE [lastArg EXCEPT ![r].totalFailedCalls =
                                     IF fw[w].alone THEN <<fw[w].n>> ELSE <<>>]
    /\ UNCHANGED <<setupVars, requestVars, globalConnStats, latencyMetric, sc, ch, descCh, loaded,
                   panicked, calls, observed>>

getTotalInputBytes(r) ==
    /\ panicked = "none"
    /\ calls < MaxCalls
    /\ r \in Present
    /\ loaded' = [by |-> "getTotalInputBytes", rec |-> r,
                  field |-> Field("totalInputBytes", 0),
                  val |-> getTotalInputBytesLoad(stats[r])]
    /\ calls' = calls + 1
    /\ UNCHANGED <<setupVars, requestVars, globalConnStats, stats, latencyMetric, fw, sc, ch, descCh,
                   panicked, intended, lastArg, racing, held, observed>>

getTotalOutputBytes(r) ==
    /\ panicked = "none"
    /\ calls < MaxCalls
    /\ r \in Present
    /\ loaded' = [by |-> "getTotalOutputBytes", rec |-> r,
                  field |-> Field("totalOutputBytes", 0),
                  val |-> getTotalOutputBytesLoad(stats[r])]
    /\ calls' = calls + 1
    /\ UNCHANGED <<setupVars, requestVars, globalConnStats, stats, latencyMetric, fw, sc, ch, descCh,
                   panicked, intended, lastArg, racing, held, observed>>

(***************************************************************************)
(* setAvgLatency: latencyMetric.WithLabelValues(...).Observe(float64(mn)). *)
(* WithLabelValues panics unless it gets one value per label name, and     *)
(* finds or creates the summary of these label values; Observe adds the    *)
(* sample to it.                                                           *)
(***************************************************************************)
setAvgLatencyLabelsWholePath(c, method, path) == <<c.endpoint, method, path>>

setAvgLatencyLabels(c, method, path) == <<c.endpoint, method, getBucketFromPath(path)>>

Observe(vec, lvs, sample) ==
    IF lvs \in DOMAIN vec
    THEN [vec EXCEPT ![lvs] = Append(@, sample)]
    ELSE vec @@ (lvs :> <<sample>>)

setAvgLatency(r, mn, method, path) ==
    /\ panicked = "none"
    /\ calls < MaxCalls
    /\ r \in Present
    /\ LET lvs == setAvgLatencyLabels(stats[r], method, path)
       IN  /\ observed' = Append(observed, [rec |-> r, method |-> method, path |-> path, lvs |-> lvs])
           /\ IF Len(lvs) # Len(latencyLabelNames)
              THEN /\ panicked' = "setAvgLatency"
                   /\ UNCHANGED latencyMetric
              ELSE /\ latencyMetric' = Observe(latencyMetric, lvs, Float64OfDuration(mn))
                   /\ UNCHANGED panicked
    /\ calls' = calls + 1
    /\ UNCHANGED <<setupVars, requestVars, globalConnStats, stats, fw, sc, ch, descCh, loaded,
                   intended, lastArg, racing, held>>

(***************************************************************************)
(* sidekickCollector: Describe and Collect.                                *)
(***************************************************************************)
DescribeCall ==
    /\ panicked = "none"
    /\ calls < MaxCalls
    /\ descCh' = Describe(newSidekickCollector)
    /\ calls' = calls + 1
    /\ UNCHANGED <<setupVars, requestVars, globalConnStats, stats, latencyMetric, fw, sc, ch, loaded,
                   panicked, intended, lastArg, racing, held, observed>>

\* for _, c := range globalConnStats { if c == nil { continue } ... }: the
\* first entry at or after i that is not nil, or one past the last entry.
NextEntryNoNilCheck(i) == i

\* The loop starts over at the first entry instead of moving on.
NextEntryFromStart(i) ==
    LET rest == {j \in 1 .. Len(globalConnStats) : globalConnStats[j] # Nil}
    IN  IF rest = {} THEN Len(globalConnStats) + 1 ELSE MinOf(rest)

NextEntry(i) ==
    LET rest == {j \in i .. Len(globalConnStats) : globalConnStats[j] # Nil}
    IN  IF rest = {} THEN Len(globalConnStats) + 1 ELSE MinOf(rest)

\* The scraper's position when the loop moves on to entry i.
At(i) ==
    IF NextEntry(i) > Len(globalConnStats) THEN [pc |-> "done", i |-> 0, statusCode |-> 0]
    ELSE [pc |-> "totalCalls", i |-> NextEntry(i), statusCode |-> 0]

\* The metrics of one entry.
TotalCallsMetricOfInput(c) ==
    MustNewConstMetric(TotalCallsDesc, "counter", Float64(c.totalInputBytes), <<c.endpoint>>)

TotalCallsMetric(c) ==
    MustNewConstMetric(TotalCallsDesc, "counter", Float64(c.totalCalls), <<c.endpoint>>)

\* The metric of slot statusCode with the value of its neighbour.
FailedCallsMetricOfNextSlot(c, statusCode) ==
    MustNewConstMetric(FailedCallsDesc, "counter",
                       Float64(c.totalFailedCalls[(statusCode + 1) % errorHTTPStatusCodes]),
                       <<c.endpoint, Itoa(statusCode + StatusBadRequest)>>)

FailedCallsMetric(c, statusCode) ==
    MustNewConstMetric(FailedCallsDesc, "counter", Float64(c.totalFailedCalls[statusCode]),
                       <<c.endpoint, Itoa(statusCode + StatusBadRequest)>>)

InputBytesMetric(c) ==
    MustNewConstMetric(InputBytesDesc, "counter", Float64(getTotalInputBytesLoad(c)),
                       <<c.endpoint>>)

OutputBytesMetric(c) ==
    MustNewConstMetric(OutputBytesDesc, "counter", Float64(getTotalOutputBytesLoad(c)),
                       <<c.endpoint>>)

\* if value := counter.Load(); value > 0
FailedCallShownAlways(value) == TRUE

FailedCallShown(value) == value # {}

\* Collect is called: the channel is fresh, the loop goes to the first entry.
CollectBegins(s) ==
    /\ sc[s].pc \in {"idle", "done"}
    /\ sc' = [sc EXCEPT ![s] = At(1)]
    /\ ch' = [ch EXCEPT ![s] = <<>>]
    /\ racing' = [racing EXCEPT ![s] = FALSE]
    /\ held' = [held EXCEPT ![s] = [i \in Present |-> {Snapshot(stats[i])}]]

Collect(s) ==
    /\ panicked = "none"
    /\ calls < MaxCalls
    /\ CollectBegins(s)
    /\ calls' = calls + 1
    /\ UNCHANGED <<setupVars, requestVars, globalConnStats, stats, latencyMetric, fw, descCh, loaded,
                   panicked, intended, lastArg, observed>>

\* c.totalCalls.Load() and the total-calls metric; c nil is a nil dereference.
CollectTotalCalls(s) ==
    /\ panicked = "none"
    /\ sc[s].pc = "totalCalls"
    /\ IF globalConnStats[sc[s].i] = Nil
       THEN /\ panicked' = "Collect"
            /\ UNCHANGED <<sc, ch, loaded>>
       ELSE LET r == globalConnStats[sc[s].i]
            IN  /\ loaded' = [by |-> "Collect", rec |-> r, field |-> Field("totalCalls", 0),
                              val |-> stats[r].totalCalls]
                /\ ch' = [ch EXCEPT ![s] = Append(@, TotalCallsMetric(stats[r]))]
                /\ sc' = [sc EXCEPT ![s].pc = "totalFailedCalls", ![s].statusCode = 0]
                /\ UNCHANGED panicked
    /\ UNCHANGED <<setupVars, requestVars, globalConnStats, stats, latencyMetric, fw, descCh, calls,
                   intended, lastArg, racing, held, observed>>

\* One iteration of for statusCode, counter := range c.totalFailedCalls.
CollectFailedCalls(s) ==
    /\ panicked = "none"
    /\ sc[s].pc = "totalFailedCalls"
    /\ LET r == globalConnStats[sc[s].i]
           k == sc[s].statusCode
       IN  /\ loaded' = [by |-> "Collect", rec |-> r, field |-> Field("totalFailedCalls", k),
                         val |-> stats[r].totalFailedCalls[k]]
           /\ ch' = [ch EXCEPT ![s] =
                        IF FailedCallShown(stats[r].totalFailedCalls[k])
                        THEN Append(@, FailedCallsMetric(stats[r], k))
                        ELSE @]
           /\ sc' = [sc EXCEPT ![s] =
                        IF k + 1 < errorHTTPStatusCodes
                        THEN [@ EXCEPT !.statusCode = k + 1]
                        ELSE [@ EXCEPT !.pc = "totalInputBytes", !.statusCode = 0]]
    /\ UNCHANGED <<setupVars, requestVars, globalConnStats, stats, latencyMetric, fw, descCh, panicked, calls,
                   intended, lastArg, racing, held, observed>>

CollectInputBytes(s) ==
    /\ panicked = "none"
    /\ sc[s].pc = "totalInputBytes"
    /\ LET r == globalConnStats[sc[s].i]
       IN  /\ loaded' = [by |-> "Collect", rec |-> r, field |-> Field("totalInputBytes", 0),
                         val |-> getTotalInputBytesLoad(stats[r])]
           /\ ch' = [ch EXCEPT ![s] = Append(@, InputBytesMetric(stats[r]))]
           /\ sc' = [sc EXCEPT ![s].pc = "totalOutputBytes"]
    /\ UNCHANGED <<setupVars, requestVars, globalConnStats, stats, latencyMetric, fw, descCh, panicked, calls,
                   intended, lastArg, racing, held, observed>>

\* The last metric of the entry; the loop moves on to the next entry, or ends.
CollectOutputBytes(s) ==
    /\ panicked = "none"
    /\ sc[s].pc = "totalOutputBytes"
    /\ LET r == globalConnStats[sc[s].i]
       IN  /\ loaded' = [by |-> "Collect", rec |-> r, field |-> Field("totalOutputBytes", 0),
                         val |-> getTotalOutputBytesLoad(stats[r])]
           /\ ch' = [ch EXCEPT ![s] = Append(@, OutputBytesMetric(stats[r]))]
           /\ sc' = [sc EXCEPT ![s] = At(sc[s].i + 1)]
    /\ UNCHANGED <<setupVars, requestVars, globalConnStats, stats, latencyMetric, fw, descCh, panicked, calls,
                   intended, lastArg, racing, held, observed>>

(***************************************************************************)
(* The system: any caller may start any operation at any time.             *)
(***************************************************************************)
Next ==
    \/ \E r \in Endpoints, n \in Int64Args : setInputBytes(r, n)
    \/ \E r \in Endpoints, n \in Int64Args : setOutputBytes(r, n)
    \/ \E r \in Endpoints, n \in Int64Args : setTotalCalls(r, n)
    \/ \E w \in Writers, r \in Endpoints, n \in FailureArgs : setTotalCallFailures(w, r, n)
    \/ \E r \in Endpoints, mn \in DurationArgs : setMinLatency(r, mn)
    \/ \E r \in Endpoints, mx \in DurationArgs : setMaxLatency(r, mx)
    \/ \E r \in Endpoints : getTotalInputBytes(r)
    \/ \E r \in Endpoints : getTotalOutputBytes(r)
    \/ \E r \in Endpoints, mn \in DurationArgs, path \in TestPaths :
          setAvgLatency(r, mn, "GET", path)
    \/ DescribeCall
    \/ \E s \in Scrapers : Collect(s)
    \/ \E w \in Writers : setTotalCallFailuresStep(w)
    \/ \E s \in Scrapers : CollectTotalCalls(s)
    \/ \E s \in Scrapers : CollectFailedCalls(s)
    \/ \E s \in Scrapers : CollectInputBytes(s)
    \/ \E s \in Scrapers : CollectOutputBytes(s)

Spec == Init /\ [][Next]_vars

\* The latency recorder alone, on every path of the enumeration.
NextLatency ==
    \E r \in Endpoints, mn \in DurationArgs, method \in Methods, path \in AllPaths :
        setAvgLatency(r, mn, method, path)

SpecLatency == Init /\ [][NextLatency]_vars

\* The record c after a whole, undisturbed setTotalCallFailures(n).
setTotalCallFailuresDone(c, n) ==
    [c EXCEPT !.totalFailedCalls = [k \in StatusCodes |-> Uint64(n[k])]]

\* The array of the earlier call: 400 -> 1, 511 -> 2^53 + 1.
PriorFailures == CHOOSE n \in FailureArgs : n[0] # Zero64

\* The failure counters alone, from the states in which an earlier
\* setTotalCallFailures(PriorFailures) has completed on every record.
InitFailures ==
    /\ globalConnStats \in StatsRegistry
    /\ stats = [i \in Present |->
                   setTotalCallFailuresDone(newConnStats(EndpointName(i)), PriorFailures)]
    /\ intended = {<<i, Field("totalFailedCalls", k), Uint64(PriorFailures[k])>> :
                      i \in Present, k \in StatusCodes}
    /\ lastArg = [i \in Present |->
                     [totalInputBytes |-> <<>>, totalOutputBytes |-> <<>>,
                      totalCalls |-> <<>>, totalFailedCalls |-> <<PriorFailures>>,
                      minLatency |-> <<>>, maxLatency |-> <<>>]]
    /\ latencyMetric = <<>>
    /\ fw = [w \in Writers |-> IdleWriter]
    /\ sc = [s \in Scrapers |-> IdleScraper]
    /\ ch = [s \in Scrapers |-> <<>>]
    /\ descCh = <<>>
    /\ loaded = NoLoad
    /\ panicked = "none"
    /\ calls = 0
    /\ racing = [s \in Scrapers |-> FALSE]
    /\ held = [s \in Scrapers |-> [i \in Present |-> {}]]
    /\ observed = <<>>
    /\ Started
    /\ NoRequests

NextFailures ==
    \/ \E w \in Writers, r \in Endpoints, n \in FailureArgs \ {PriorFailures} :
          setTotalCallFailures(w, r, n)
    \/ \E w \in Writers : setTotalCallFailuresStep(w)
    \/ \E s \in Scrapers : Collect(s)
    \/ \E s \in Scrapers : CollectTotalCalls(s)
    \/ \E s \in Scrapers : CollectFailedCalls(s)
    \/ \E s \in Scrapers : CollectInputBytes(s)
    \/ \E s \in Scrapers : CollectOutputBytes(s)

SpecFailures == InitFailures /\ [][NextFailures]_vars

(***************************************************************************)
(* Setup: init, metricsHandler, and the scrapes a returned handler serves.  *)
(***************************************************************************)

\* Registerer.Register: an error when a collector is already registered
\* under the name, the collector added otherwise.
Register(registry, c) ==
    IF \E e \in registry : e.fqName = c.fqName
    THEN [err |-> "AlreadyRegisteredError", registry |-> registry]
    ELSE [err |-> "nil", registry |-> registry \cup {c}]

\* A MustRegister that drops the error.
MustRegisterIgnoringError(registry, c) ==
    [panic |-> FALSE, registry |-> Register(registry, c).registry]

\* prometheus.MustRegister: Register on the default registry, panic on an error.
MustRegister(registry, c) ==
    [panic |-> Register(registry, c).err # "nil", registry |-> Register(registry, c).registry]

\* What the default registry may hold when init runs: nothing of interest,
\* or a collector of another package under one of the two names.
PreRegistered ==
    {NewRegistry,
     {Registration(CollectorRegistration.fqName, "other")},
     {Registration(LatencyRegistration.fqName, "other")}}

\* The state variables the setup does not touch.
recordVars == <<globalConnStats, stats, latencyMetric, fw, descCh, loaded, panicked,
                calls, intended, lastArg, observed>>

collectVars == <<sc, ch, racing, held>>

\* init: register the collector, build latencyMetric, register it; a panic
\* of either MustRegister aborts the process.
init ==
    /\ process = "starting"
    /\ LET first  == MustRegister(defaultRegistry, CollectorRegistration)
           second == MustRegister(first.registry, LatencyRegistration)
       IN  /\ defaultRegistry' = IF first.panic THEN first.registry ELSE second.registry
           /\ process' = IF first.panic \/ second.panic THEN "aborted" ELSE "running"
    /\ UNCHANGED <<served, scrape, requestVars, recordVars, collectVars>>

\* prometheus.Gatherers{prometheus.DefaultGatherer, registry}
Gatherers == <<"DefaultGatherer", "registry">>

\* metricsHandler from the point where it has its registry: the error and no
\* handler when Register fails, else the handler over both gatherers.
metricsHandlerFrom(registry) ==
    LET r == Register(registry, CollectorRegistration)
    IN  IF r.err # "nil"
        THEN [handler |-> <<>>, err |-> r.err]
        ELSE [handler |-> <<[gatherers |-> Gatherers, registry |-> r.registry]>>,
              err |-> "nil"]

metricsHandler ==
    /\ process = "running"
    /\ Len(served) < MaxServed
    /\ served' = Append(served, metricsHandlerFrom(NewRegistry))
    /\ UNCHANGED <<process, defaultRegistry, scrape, requestVars, recordVars, collectVars>>

\* The registry behind gatherer g of a handler.
GathererRegistry(h, g) ==
    IF h.gatherers[g] = "DefaultGatherer" THEN defaultRegistry ELSE h.registry

\* The goroutine that serves the scrape.
ScrapeGoroutine == MinOf(Scrapers)

\* A scrape arrives at handler h.
ScrapeStart(h) ==
    /\ process = "running"
    /\ scrape.pc \in {"idle", "done"}
    /\ h \in DOMAIN served
    /\ served[h].handler # <<>>
    /\ scrape' = [pc |-> "gathering", handler |-> h, gatherer |-> 1, collects |-> 0,
                  samples |-> <<>>]
    /\ UNCHANGED <<process, defaultRegistry, served, requestVars, recordVars, collectVars>>

\* The handler gathers from its next gatherer: Collect of the sidekick
\* collector registered there is called.
ScrapeGather ==
    /\ scrape.pc = "gathering"
    /\ scrape.gatherer <= Len(Gatherers)
    /\ IF CollectorRegistration \in GathererRegistry(served[scrape.handler].handler[1],
                                                      scrape.gatherer)
       THEN /\ CollectBegins(ScrapeGoroutine)
            /\ scrape' = [scrape EXCEPT !.pc = "collecting"]
       ELSE /\ scrape' = [scrape EXCEPT !.gatherer = @ + 1]
            /\ UNCHANGED collectVars
    /\ UNCHANGED <<process, defaultRegistry, served, requestVars, recordVars>>

\* Collect has returned: its metrics join the gathered ones.
ScrapeCollected ==
    /\ scrape.pc = "collecting"
    /\ sc[ScrapeGoroutine].pc = "done"
    /\ scrape' = [scrape EXCEPT !.pc = "gathering", !.gatherer = @ + 1,
                                !.collects = @ + 1, !.samples = @ \o ch[ScrapeGoroutine]]
    /\ UNCHANGED <<process, defaultRegistry, served, requestVars, recordVars, collectVars>>

\* Every gatherer has been gathered: the response is written.
ScrapeServed ==
    /\ scrape.pc = "gathering"
    /\ scrape.gatherer > Len(Gatherers)
    /\ scrape' = [scrape EXCEPT !.pc = "done"]
    /\ UNCHANGED <<process, defaultRegistry, served, requestVars, recordVars, collectVars>>

InitSetup ==
    /\ globalConnStats \in StatsRegistry
    /\ stats = [i \in Present |-> newConnStats(EndpointName(i))]
    /\ latencyMetric = <<>>
    /\ fw = [w \in Writers |-> IdleWriter]
    /\ sc = [s \in Scrapers |-> IdleScraper]
    /\ ch = [s \in Scrapers |-> <<>>]
    /\ descCh = <<>>
    /\ loaded = NoLoad
    /\ panicked = "none"
    /\ calls = 0
    /\ intended = {}
    /\ lastArg = [i \in Present |-> [totalInputBytes |-> <<>>, totalOutputBytes |-> <<>>,
                                      totalCalls |-> <<>>, totalFailedCalls |-> <<>>,
                                      minLatency |-> <<>>, maxLatency |-> <<>>]]
    /\ racing = [s \in Scrapers |-> FALSE]
    /\ held = [s \in Scrapers |-> [i \in Present |-> {}]]
    /\ observed = <<>>
    /\ process = "starting"
    /\ defaultRegistry \in PreRegistered
    /\ served = <<>>
    /\ scrape = IdleScrape
    /\ NoRequests

NextSetup ==
    \/ init
    \/ metricsHandler
    \/ \E h \in 1 .. MaxServed : ScrapeStart(h)
    \/ ScrapeGather
    \/ ScrapeCollected
    \/ ScrapeServed
    \/ \E s \in Scrapers : CollectTotalCalls(s)
    \/ \E s \in Scrapers : CollectFailedCalls(s)
    \/ \E s \in Scrapers : CollectInputBytes(s)
    \/ \E s \in Scrapers : CollectOutputBytes(s)

SpecSetup == InitSetup /\ [][NextSetup]_vars

(***************************************************************************)
(* Request handlers: each reads the shared total, then calls a setter.     *)
(***************************************************************************)

\* The int64 of a small natural number.
Int64Of(n) == I64(FALSE, {i \in 0 .. MaxTotal : (n \div (2 ^ i)) % 2 = 1})

\* The fields the three scalar setters store.
TotalFields == {"totalCalls", "totalInputBytes", "totalOutputBytes"}

\* setTotalCalls, setInputBytes or setOutputBytes, by the field it stores.
SetterStore(field, c, n) ==
    CASE field = "totalCalls"       -> setTotalCallsStore(c, n)
      [] field = "totalInputBytes"  -> setInputBytesStore(c, n)
      [] field = "totalOutputBytes" -> setOutputBytesStore(c, n)

\* The external total grows.
Increase ==
    /\ externalTotal < MaxTotal
    /\ externalTotal' = externalTotal + 1
    /\ UNCHANGED <<rq, setupVars, recordVars, collectVars>>

\* Handler h reads the total it will pass to the setter of record r.
ReadTotal(h, r, field) ==
    /\ rq[h].pc = "idle"
    /\ r \in Present
    /\ rq' = [rq EXCEPT ![h] = [pc |-> "store", rec |-> r, field |-> field,
                               total |-> externalTotal, overtaken |-> FALSE]]
    /\ UNCHANGED <<externalTotal, setupVars, recordVars, collectVars>>

\* Handler h calls the setter with the total it read; the handlers that
\* read before this store and have not stored yet are overtaken.
RequestStore(h) ==
    /\ rq[h].pc = "store"
    /\ panicked = "none"
    /\ \E r \in {rq[h].rec}, field \in {rq[h].field}, n \in {Int64Of(rq[h].total)} :
          \E new \in {SetterStore(field, stats[r], n)} :
             /\ stats' = [stats EXCEPT ![r] = new]
             /\ Stored(r, Field(field, 0), Uint64(n), new)
             /\ lastArg' = [lastArg EXCEPT ![r][field] = <<n>>]
             /\ rq' = [g \in Handlers |->
                          IF g = h THEN IdleRequest
                          ELSE IF rq[g].pc = "store" /\ rq[g].rec = r /\ rq[g].field = field
                               THEN [rq[g] EXCEPT !.overtaken = TRUE]
                               ELSE rq[g]]
    /\ UNCHANGED <<externalTotal, setupVars, globalConnStats, latencyMetric, fw, sc, ch,
                   descCh, loaded, panicked, calls, observed>>

NextCalls ==
    \/ Increase
    \/ \E h \in Handlers, r \in Endpoints, field \in TotalFields : ReadTotal(h, r, field)
    \/ \E h \in Handlers : RequestStore(h)

SpecCalls == Init /\ [][NextCalls]_vars

(***************************************************************************)
(* Vocabulary of the properties.                                           *)
(***************************************************************************)
Range(seq) == {seq[i] : i \in DOMAIN seq}

\* The number a sequence of decimal digits denotes.
RECURSIVE DecimalValue(_)
DecimalValue(digits) ==
    IF Len(digits) = 0 THEN 0
    ELSE 10 * DecimalValue(SubSeq(digits, 1, Len(digits) - 1))
         + (CHOOSE d \in 0 .. 9 : DigitChars[d + 1] = digits[Len(digits)])

Running(s) == sc[s].pc \notin {"idle", "done"}

\* What slot k holds in the snapshot snap.
SlotOf(snap, k) ==
    IF \E t \in snap.totalFailedCalls : t[1] = k
    THEN (CHOOSE t \in snap.totalFailedCalls : t[1] = k)[2]
    ELSE {}

\* The field of the snapshot snap that the metric m reports.
ReportedField(snap, m) ==
    IF m.desc = TotalCallsDesc THEN snap.totalCalls
    ELSE IF m.desc = InputBytesDesc THEN snap.totalInputBytes
    ELSE IF m.desc = OutputBytesDesc THEN snap.totalOutputBytes
    ELSE SlotOf(snap, DecimalValue(m.labelValues[2]) - StatusBadRequest)

\* The record whose endpoint the metric m is labelled with.
RecordOf(m) == CHOOSE r \in Present : stats[r].endpoint = m.labelValues[1]

\* The failure metrics scraper s emitted for record r and slot k.
FailureMetrics(s, r, k) ==
    {i \in DOMAIN ch[s] :
        /\ ch[s][i].desc = FailedCallsDesc
        /\ ch[s][i].labelValues[1] = stats[r].endpoint
        /\ DecimalValue(ch[s][i].labelValues[2]) = k + StatusBadRequest}

\* Scraper s has read slot k of record r in its current (or last) Collect.
Visited(s, r, k) ==
    \/ sc[s].pc = "done"
    \/ /\ Running(s)
       /\ \/ r < sc[s].i
          \/ /\ r = sc[s].i
             /\ \/ sc[s].pc \in {"totalInputBytes", "totalOutputBytes"}
                \/ sc[s].pc = "totalFailedCalls" /\ k < sc[s].statusCode

(***************************************************************************)
(* C1.  Under any mix of concurrent setters, every atomic load (by a       *)
(* getter or by Collect) returns the initial zero or a value that a caller *)
(* handed to a setter of that same field of that same record.              *)
(***************************************************************************)
C1_ReadsReturnStoredValues ==
    \/ loaded = NoLoad
    \/ loaded.val = {}
    \/ <<loaded.rec, loaded.field, loaded.val>> \in intended

\* Collect loads a value that a setTotalCallFailures still in progress stored.
C1_Witness ==
    /\ loaded.by = "Collect"
    /\ loaded.val # {}
    /\ loaded.field.name = "totalFailedCalls"
    /\ \E w \in Writers : fw[w].pc = "store" /\ fw[w].rec = loaded.rec

(***************************************************************************)
(* C2.  As claimed: when no store ran during a Collect, then for every     *)
(* slot that Collect has read, a slot holding v > 0 gave exactly one       *)
(* failure metric for that endpoint, with status_code 400 + slot and with  *)
(* value v, and a slot holding 0 gave none.  The code emits float64(v),    *)
(* which is v only while v fits 53 bits.                                   *)
(*                                                                         *)
(* Stated on the whole output: the failure metrics emitted for a record    *)
(* are, one for one, the <<status code, value>> of the slots read that do  *)
(* not hold 0.                                                             *)
(***************************************************************************)
FailureIndexes(s, r) ==
    {i \in DOMAIN ch[s] :
        ch[s][i].desc = FailedCallsDesc /\ ch[s][i].labelValues[1] = stats[r].endpoint}

C2_Emitted(s, r, Value(_)) ==
    LET snap == CHOOSE h \in held[s][r] : TRUE
        idx  == FailureIndexes(s, r)
        read == {t \in snap.totalFailedCalls : Visited(s, r, t[1])}
    IN  /\ {<<DecimalValue(ch[s][i].labelValues[2]), ch[s][i].value>> : i \in idx}
              = {<<t[1] + StatusBadRequest, Value(t[2])>> : t \in read}
        /\ Cardinality(idx) = Cardinality(read)

C2_AsClaimed(v) == v

C2_Original_FailureMetricValueIsCount ==
    \A s \in Scrapers : (sc[s].pc # "idle" /\ ~racing[s]) =>
        \A r \in Present : C2_Emitted(s, r, C2_AsClaimed)

\* C2, amended: the value is v when v < 2^53 and v rounded to 53 significant
\* bits (the nearest float64) otherwise.
C2_NearestDouble(v) == IF v = {} \/ MaxOf(v) < MantissaBits THEN v ELSE RoundToMantissa(v)

C2_FailureMetricPerPositiveSlot ==
    \A s \in Scrapers : (sc[s].pc # "idle" /\ ~racing[s]) =>
        \A r \in Present : C2_Emitted(s, r, C2_NearestDouble)

\* A finished, undisturbed Collect that reported 400 -> 1 and 511 -> 2^53.
C2_Witness ==
    \E s \in Scrapers, r \in Present :
        /\ sc[s].pc = "done"
        /\ ~racing[s]
        /\ \E i \in FailureMetrics(s, r, 0) : ch[s][i].value = {0}
        /\ \E i \in FailureMetrics(s, r, errorHTTPStatusCodes - 1) : ch[s][i].value = {53}
        /\ FailureMetrics(s, r, 4) = {}

(***************************************************************************)
(* C3.  As claimed: every value a Collect has emitted for a field of a     *)
(* record is a value that this field held at some instant since that       *)
(* Collect began.  The code emits the float64 of such a value.             *)
(***************************************************************************)
C3_Held(s, Value(_)) ==
    \A i \in DOMAIN ch[s] :
        \E snap \in held[s][RecordOf(ch[s][i])] :
            ch[s][i].value = Value(ReportedField(snap, ch[s][i]))

C3_AsClaimed(v) == v

C3_Original_EmittedValueWasHeld == \A s \in Scrapers : C3_Held(s, C3_AsClaimed)

\* C3, amended: every emitted value is the float64 nearest to (and, below
\* 2^53, equal to) a value the field held at some instant since Collect began.
C3_NearestDouble(v) == IF v = {} \/ MaxOf(v) < MantissaBits THEN v ELSE RoundToMantissa(v)

C3_EmittedValueWasHeld == \A s \in Scrapers : C3_Held(s, C3_NearestDouble)

\* A finished Collect whose metrics for one record, taken together, are the
\* record of no instant: the fields were read at different instants.
C3_Witness ==
    \E s \in Scrapers, r \in Present :
        /\ sc[s].pc = "done"
        /\ racing[s]
        /\ \A snap \in held[s][r] :
              \/ Cardinality(FailureIndexes(s, r)) # Cardinality(snap.totalFailedCalls)
              \/ \E i \in DOMAIN ch[s] :
                    /\ RecordOf(ch[s][i]) = r
                    /\ ch[s][i].value # C3_NearestDouble(ReportedField(snap, ch[s][i]))

(***************************************************************************)
(* C4.  As claimed: every metric Collect emits has a descriptor that is    *)
(* among the descriptors Describe sends.                                   *)
(***************************************************************************)
C4_CollectEmitsOnlyDescribed ==
    \A s \in Scrapers : \A i \in DOMAIN ch[s] :
        ch[s][i].desc \in Range(Describe(newSidekickCollector))

(***************************************************************************)
(* C5.  A finished Collect has emitted metrics for the present entries     *)
(* only, entry after entry in registry order; for each present entry one   *)
(* total-calls, one bytes-received and one bytes-sent counter labelled     *)
(* with the entry's endpoint, and k failure counters of pairwise different *)
(* status codes within 400..511, 3 + k metrics in all, 0 <= k <= 112.      *)
(* And each iteration of the slot loop emits one failure counter, for the  *)
(* slot it read, exactly when it read a positive value.                    *)
(***************************************************************************)
C5_Output(s) ==
    LET out == ch[s]
    IN  /\ \A i \in DOMAIN out :
              /\ out[i].desc \in {TotalCallsDesc, FailedCallsDesc, InputBytesDesc, OutputBytesDesc}
              /\ Len(out[i].labelValues) = Len(out[i].desc.variableLabels)
              /\ \E r \in Present : out[i].labelValues[1] = stats[r].endpoint
        /\ \A i, j \in DOMAIN out : i < j => RecordOf(out[i]) <= RecordOf(out[j])
        /\ \A r \in Present :
              LET mine  == {i \in DOMAIN out : RecordOf(out[i]) = r}
                  fails == FailureIndexes(s, r)
                  codes == {DecimalValue(out[i].labelValues[2]) : i \in fails}
              IN  /\ Cardinality({i \in mine : out[i].desc = TotalCallsDesc}) = 1
                  /\ Cardinality({i \in mine : out[i].desc = InputBytesDesc}) = 1
                  /\ Cardinality({i \in mine : out[i].desc = OutputBytesDesc}) = 1
                  /\ Cardinality(mine) = 3 + Cardinality(fails)
                  /\ Cardinality(codes) = Cardinality(fails)
                  /\ codes \subseteq 400 .. 511
                  /\ Cardinality(fails) <= 112

C5_SlotStep(s) ==
    (sc[s].pc = "totalFailedCalls" /\ sc'[s] # sc[s]) =>
        IF loaded'.val # {}
        THEN /\ Len(ch'[s]) = Len(ch[s]) + 1
             /\ SubSeq(ch'[s], 1, Len(ch[s])) = ch[s]
             /\ LET m == ch'[s][Len(ch'[s])]
                IN  /\ m.desc = FailedCallsDesc
                    /\ m.labelValues[1] = stats[loaded'.rec].endpoint
                    /\ DecimalValue(m.labelValues[2]) = loaded'.field.idx + 400
        ELSE ch'[s] = ch[s]

C5_CollectEmission ==
    /\ [](\A s \in Scrapers : sc[s].pc = "done" => C5_Output(s))
    /\ [][\A s \in Scrapers : C5_SlotStep(s)]_vars

\* A finished Collect over <<nil, record>>: nothing for the nil entry, and
\* 3 + 2 metrics for the record.
C5_Witness ==
    \E s \in Scrapers :
        /\ sc[s].pc = "done"
        /\ globalConnStats[1] = Nil
        /\ globalConnStats[2] # Nil
        /\ Len(ch[s]) = 5

(***************************************************************************)
(* C6.  For a record on which no setter has been called, Collect emits     *)
(* only metrics of value 0 and no failure metric; a finished Collect has   *)
(* emitted exactly the three base counters for it.                         *)
(***************************************************************************)
Fresh(r) ==
    /\ \A t \in intended : t[1] # r
    /\ \A w \in Writers : ~(fw[w].pc = "store" /\ fw[w].rec = r)

C6_FreshRecordExport ==
    \A s \in Scrapers, r \in Present : Fresh(r) =>
        LET mine == {i \in DOMAIN ch[s] : RecordOf(ch[s][i]) = r}
        IN  /\ \A i \in mine : ch[s][i].value = {} /\ ch[s][i].desc # FailedCallsDesc
            /\ sc[s].pc = "done" =>
                  /\ Cardinality(mine) = 3
                  /\ {ch[s][i].desc : i \in mine}
                        = {TotalCallsDesc, InputBytesDesc, OutputBytesDesc}

\* A finished Collect over a record that was written and a fresh one.
C6_Witness ==
    \E s \in Scrapers :
        /\ sc[s].pc = "done"
        /\ Present = {1, 2}
        /\ ~Fresh(1)
        /\ Fresh(2)
        /\ Len(ch[s]) > 6

(***************************************************************************)
(* C7.  getTotalInputBytes returns exactly n when the last setInputBytes   *)
(* on the record was setInputBytes(n) with n >= 0; likewise                *)
(* getTotalOutputBytes after setOutputBytes(n).                            *)
(***************************************************************************)
C7_Returns(r, last) == last # <<>> /\ ~last[1].neg => loaded'.val = last[1].mag

C7_SetGetRoundTrip ==
    [][\A r \in Present :
          /\ getTotalInputBytes(r) => C7_Returns(r, lastArg[r].totalInputBytes)
          /\ getTotalOutputBytes(r) => C7_Returns(r, lastArg[r].totalOutputBytes)]_vars

\* getTotalOutputBytes has returned 2^53 + 1 after setOutputBytes(2^53 + 1).
C7_Witness ==
    /\ loaded.by = "getTotalOutputBytes"
    /\ loaded.val = {0, 53}
    /\ lastArg[loaded.rec].totalOutputBytes = <<I64(FALSE, {0, 53})>>

(***************************************************************************)
(* C8.  No reachable state is a crash, and none blocks an operation that   *)
(* has started: a Collect or a setTotalCallFailures in progress can take   *)
(* its next step, and every setAvgLatency call has recorded its sample.    *)
(***************************************************************************)
RECURSIVE SumOfLens(_, _)
SumOfLens(f, keys) ==
    IF keys = {} THEN 0
    ELSE LET k == CHOOSE x \in keys : TRUE
         IN  Len(f[k]) + SumOfLens(f, keys \ {k})

LeadingSlashes(path) ==
    CHOOSE i \in 0 .. Len(path) :
        /\ \A j \in 1 .. i : path[j] = "/"
        /\ i = Len(path) \/ path[i + 1] # "/"

\* The length of the longest run of characters other than '/' after the first i.
RunLength(path, i) ==
    CHOOSE n \in 0 .. (Len(path) - i) :
        /\ \A j \in (i + 1) .. (i + n) : path[j] # "/"
        /\ i + n = Len(path) \/ path[i + n + 1] = "/"

FirstSegment(path) ==
    [j \in 1 .. RunLength(path, LeadingSlashes(path)) |-> path[LeadingSlashes(path) + j]]

OnlySlashes(path) == \A j \in 1 .. Len(path) : path[j] = "/"

C9_Examples(path, bucket) ==
    /\ path = <<>> => bucket = <<>>
    /\ path = <<"/">> => bucket = <<>>
    /\ path = CoreDataPath => bucket = <<"c", "o", "r", "e", "-", "d", "a", "t", "a">>
    /\ path = NoLeadingSlashPath =>
          bucket = <<"n", "o", "l", "e", "a", "d", "i", "n", "g", "s", "l", "a", "s", "h">>

C9_BucketIsFirstSegment ==
    \A n \in DOMAIN observed :
        LET path   == observed[n].path
            bucket == observed[n].lvs[3]
        IN  /\ bucket = FirstSegment(path)
            /\ OnlySlashes(path) => bucket = <<>>
            /\ "/" \notin Range(bucket)
            /\ C9_Examples(path, bucket)

\* The paths "noleadingslash/x" and "//a" have been through getBucketFromPath.
C9_Witness ==
    /\ Len(observed) = 2
    /\ observed[1].path = NoLeadingSlashPath
    /\ Len(observed[1].lvs[3]) = 14
    /\ observed[2].path = <<"/", "/", "a">>
    /\ observed[2].lvs[3] = <<"a">>

(***************************************************************************)
(* C10.  Every setAvgLatency(d, method, path) call completes without a     *)
(* panic and records exactly one observation, under the key (endpoint of   *)
(* the record, method, getBucketFromPath(path)) and under no other key;    *)
(* two paths with the same first segment share their key, so there are at  *)
(* most as many keys as (endpoint, method, first segment) triples used.    *)
(***************************************************************************)
SamplesUnder(vec, lvs) == IF lvs \in DOMAIN vec THEN Len(vec[lvs]) ELSE 0

C10_Keys ==
    /\ panicked = "none"
    /\ \A n \in DOMAIN observed :
          observed[n].lvs = <<stats[observed[n].rec].endpoint, observed[n].method,
                              getBucketFromPath(observed[n].path)>>
    /\ \A m, n \in DOMAIN observed :
          (/\ observed[m].rec = observed[n].rec
           /\ observed[m].method = observed[n].method
           /\ FirstSegment(observed[m].path) = FirstSegment(observed[n].path))
             => observed[m].lvs = observed[n].lvs
    /\ Cardinality(DOMAIN latencyMetric)
          <= Cardinality({<<observed[n].rec, observed[n].method, FirstSegment(observed[n].path)>> :
                             n \in DOMAIN observed})

C10_CallStep ==
    Len(observed') = Len(observed) + 1 =>
        LET lvs == observed'[Len(observed')].lvs
        IN  /\ panicked' = "none"
            /\ SamplesUnder(latencyMetric', lvs) = SamplesUnder(latencyMetric, lvs) + 1
            /\ DOMAIN latencyMetric' = DOMAIN latencyMetric \cup {lvs}
            /\ \A key \in DOMAIN latencyMetric : key # lvs => latencyMetric'[key] = latencyMetric[key]
            /\ lvs \in DOMAIN latencyMetric =>
                  SubSeq(latencyMetric'[lvs], 1, Len(latencyMetric[lvs])) = latencyMetric[lvs]

StepsPerEntry == errorHTTPStatusCodes + 3

\* The own steps scraper s still has to take.
CollectRemaining(s) ==
    IF ~Running(s) THEN 0
    ELSE StepsPerEntry * Cardinality({j \in DOMAIN globalConnStats :
                                        j > sc[s].i /\ globalConnStats[j] # Nil})
         + (IF sc[s].pc = "totalCalls" THEN StepsPerEntry
            ELSE IF sc[s].pc = "totalFailedCalls"
                 THEN (errorHTTPStatusCodes - sc[s].statusCode) + 2
            ELSE IF sc[s].pc = "totalInputBytes" THEN 2
            ELSE 1)

CollectRemainingNext(s) ==
    IF sc'[s].pc \in {"idle", "done"} THEN 0
    ELSE StepsPerEntry * Cardinality({j \in DOMAIN globalConnStats :
                                        j > sc'[s].i /\ globalConnStats[j] # Nil})
         + (IF sc'[s].pc = "totalCalls" THEN StepsPerEntry
            ELSE IF sc'[s].pc = "totalFailedCalls"
                 THEN (errorHTTPStatusCodes - sc'[s].statusCode) + 2
            ELSE IF sc'[s].pc = "totalInputBytes" THEN 2
            ELSE 1)

\* The own steps writer w still has to take.
StoresRemaining(w) == IF fw[w].pc = "store" THEN errorHTTPStatusCodes - fw[w].statusCode ELSE 0

StoresRemainingNext(w) ==
    IF fw'[w].pc = "store" THEN errorHTTPStatusCodes - fw'[w].statusCode ELSE 0

C11_CanStep ==
    /\ \A s \in Scrapers :
          /\ sc[s].pc = "totalCalls" => ENABLED CollectTotalCalls(s)
          /\ sc[s].pc = "totalFailedCalls" => ENABLED CollectFailedCalls(s)
          /\ sc[s].pc = "totalInputBytes" => ENABLED CollectInputBytes(s)
          /\ sc[s].pc = "totalOutputBytes" => ENABLED CollectOutputBytes(s)
          /\ Running(s) => CollectRemaining(s) \in 1 .. (StepsPerEntry * Len(globalConnStats))
    /\ \A w \in Writers :
          fw[w].pc = "store" =>
              /\ ENABLED setTotalCallFailuresStep(w)
              /\ StoresRemaining(w) \in 1 .. errorHTTPStatusCodes

C11_OwnSteps ==
    /\ \A s \in Scrapers :
          Running(s) =>
              IF sc'[s] # sc[s] THEN CollectRemainingNext(s) = CollectRemaining(s) - 1
              ELSE UNCHANGED ch[s]
    /\ \A w \in Writers :
          fw[w].pc = "store" =>
              (<<fw'[w].pc, fw'[w].statusCode>> # <<fw[w].pc, fw[w].statusCode>>
                  => StoresRemainingNext(w) = StoresRemaining(w) - 1)

C12_Static == <<newSidekickCollector.desc>>

C12_DescribeStep ==
    DescribeCall =>
        /\ descCh' = C12_Static
        /\ descCh # <<>> => descCh' = descCh
        /\ UNCHANGED <<setupVars, requestVars, globalConnStats, stats, latencyMetric, loaded, fw, sc, ch>>

C12_DescribeIsPure == [](descCh \in {<<>>, C12_Static}) /\ [][C12_DescribeStep]_vars

\* Describe has been called after a setter changed a record.
C12_Witness ==
    /\ descCh = C12_Static
    /\ calls = 2
    /\ \E r \in Present : stats[r].totalCalls = {0, 53}

(***************************************************************************)
(* C14.  When a setTotalCallFailures(n) call that no other such call on    *)
(* the record overlapped makes its last store, every slot i of the record  *)
(* is uint64(n[i]), whatever it held before.  A Collect that then runs     *)
(* with no store in between emits, for that record, exactly the status     *)
(* codes of the slots of n that are not 0: a slot that was positive and    *)
(* was passed 0 is emitted no more.                                        *)
(***************************************************************************)
C14_LastStore(w) ==
    (fw[w].pc = "store" /\ fw'[w].pc = "idle" /\ fw[w].alone) =>
        \A i \in StatusCodes :
            stats'[fw[w].rec].totalFailedCalls[i] = Uint64(fw[w].n[i])

\* Collect takes its last step; all its failure metrics are on the channel.
C14_CollectEnds(s) ==
    (sc[s].pc = "totalOutputBytes" /\ sc'[s].pc = "done" /\ ~racing[s]) =>
        \A r \in Present :
            (/\ lastArg[r].totalFailedCalls # <<>>
             /\ \A w \in Writers : ~(fw[w].pc = "store" /\ fw[w].rec = r /\ fw[w].statusCode > 0))
               => {DecimalValue(ch[s][i].labelValues[2]) : i \in FailureIndexes(s, r)}
                     = {i + StatusBadRequest :
                           i \in {j \in StatusCodes :
                                    Uint64(lastArg[r].totalFailedCalls[1][j]) # {}}}

C14_ReplacesEverySlot ==
    [][(\A w \in Writers : C14_LastStore(w)) /\ (\A s \in Scrapers : C14_CollectEnds(s))]_vars

\* Slot 0 held 1 and was passed 0: it is 0, and a later Collect emitted 404 and 511 only.
C14_Witness ==
    \E s \in Scrapers, r \in Present :
        /\ sc[s].pc = "done"
        /\ ~racing[s]
        /\ <<r, Field("totalFailedCalls", 0), {0}>> \in intended
        /\ lastArg[r].totalFailedCalls # <<>>
        /\ lastArg[r].totalFailedCalls[1][0] = Zero64
        /\ stats[r].totalFailedCalls[0] = {}
        /\ {DecimalValue(ch[s][i].labelValues[2]) : i \in FailureIndexes(s, r)} = {404, 511}

(***************************************************************************)
(* C15.  setTotalCallFailures is one atomic store per slot and Collect one *)
(* atomic load per slot: each failure value a Collect emits is the value   *)
(* its slot held at some instant of the scrape (as a float64), but the     *)
(* slots emitted together need not be the array of any one instant.  The   *)
(* witness is a scrape, concurrent with one call, whose failure metrics    *)
(* are neither the array before the call nor the array passed to it.       *)
(***************************************************************************)
C15_SlotWasHeld(s, i) ==
    \E snap \in held[s][RecordOf(ch[s][i])] :
        ch[s][i].value
            = RoundToMantissa(SlotOf(snap, DecimalValue(ch[s][i].labelValues[2]) - StatusBadRequest))

C15_EachSlotReadAlone ==
    \A s \in Scrapers :
        \A i \in DOMAIN ch[s] : ch[s][i].desc = FailedCallsDesc => C15_SlotWasHeld(s, i)

\* The failure metrics an undisturbed Collect would emit for the array n.
C15_MetricsOf(n) ==
    {<<i + StatusBadRequest, RoundToMantissa(Uint64(n[i]))>> :
        i \in {j \in StatusCodes : Uint64(n[j]) # {}}}

\* One call, begun and completed during the scrape, changed slots 0, 4 and
\* 111; the scrape emitted the old slot 0 with the new slots 4 and 111.
C15_Witness ==
    \E s \in Scrapers, r \in Present :
        /\ sc[s].pc = "done"
        /\ racing[s]
        /\ calls = 2
        /\ lastArg[r].totalFailedCalls # <<>>
        /\ lastArg[r].totalFailedCalls[1] # PriorFailures
        /\ LET emitted == {<<DecimalValue(ch[s][i].labelValues[2]), ch[s][i].value>> :
                              i \in FailureIndexes(s, r)}
           IN  /\ emitted # C15_MetricsOf(PriorFailures)
               /\ emitted # C15_MetricsOf(lastArg[r].totalFailedCalls[1])
               /\ emitted = {<<400, {0}>>, <<404, {1}>>, <<511, {64}>>}

(***************************************************************************)
(* C16.  Every scalar setter replaces: after any sequence of calls, each   *)
(* of totalInputBytes, totalOutputBytes, totalCalls, minLatency and        *)
(* maxLatency that has been set is the argument of the last call of its    *)
(* setter on that record (an int64 count n >= 0 is stored as n, a negative *)
(* one as n + 2^64), never a sum and never a running minimum or maximum;   *)
(* minLatency <= maxLatency is not maintained.                             *)
(***************************************************************************)
C16_Count(last, field) ==
    last # <<>> =>
        IF last[1].neg /\ last[1].mag # {} THEN field = Neg64(last[1].mag)
        ELSE field = last[1].mag

C16_Duration(last, field) == last # <<>> => field = last[1]

C16_LastWriterWins ==
    \A r \in Present :
        /\ C16_Count(lastArg[r].totalInputBytes, stats[r].totalInputBytes)
        /\ C16_Count(lastArg[r].totalOutputBytes, stats[r].totalOutputBytes)
        /\ C16_Count(lastArg[r].totalCalls, stats[r].totalCalls)
        /\ C16_Duration(lastArg[r].minLatency, stats[r].minLatency)
        /\ C16_Duration(lastArg[r].maxLatency, stats[r].maxLatency)

\* setMinLatency(2^10) and then setMinLatency(2^53 + 1) on one record left
\* minLatency = 2^53 + 1, above maxLatency.
C16_Witness ==
    \E r \in Present :
        /\ <<r, Field("minLatency", 0), I64(FALSE, {10})>> \in intended
        /\ <<r, Field("minLatency", 0), I64(FALSE, {0, 53})>> \in intended
        /\ lastArg[r].minLatency = <<I64(FALSE, {0, 53})>>
        /\ stats[r].minLatency = I64(FALSE, {0, 53})
        /\ DurationLess(stats[r].maxLatency, stats[r].minLatency)

(***************************************************************************)
(* C17.  Every mutator changes only its own field of its own record:       *)
(* setInputBytes only totalInputBytes, setOutputBytes only                 *)
(* totalOutputBytes, setTotalCalls only totalCalls, each store of          *)
(* setTotalCallFailures only its slot of totalFailedCalls, setMinLatency   *)
(* only minLatency, setMaxLatency only maxLatency.  The endpoint string,   *)
(* the other fields, the other records and the registry stay as they are,  *)
(* and the getters and Collect change no field.                            *)
(***************************************************************************)
C17_Fields == {"endpoint", "totalInputBytes", "totalOutputBytes", "totalCalls",
               "totalFailedCalls", "minLatency", "maxLatency"}

C17_OnlyChanges(r, fields) ==
    /\ globalConnStats' = globalConnStats
    /\ DOMAIN stats' = DOMAIN stats
    /\ \A q \in DOMAIN stats :
          /\ DOMAIN stats'[q] = C17_Fields
          /\ \A f \in C17_Fields \ (IF q = r THEN fields ELSE {}) : stats'[q][f] = stats[q][f]

C17_Step ==
    /\ \A r \in Present :
          /\ \A n \in Int64Args :
                /\ setInputBytes(r, n) => C17_OnlyChanges(r, {"totalInputBytes"})
                /\ setOutputBytes(r, n) => C17_OnlyChanges(r, {"totalOutputBytes"})
                /\ setTotalCalls(r, n) => C17_OnlyChanges(r, {"totalCalls"})
          /\ \A d \in DurationArgs :
                /\ setMinLatency(r, d) => C17_OnlyChanges(r, {"minLatency"})
                /\ setMaxLatency(r, d) => C17_OnlyChanges(r, {"maxLatency"})
          /\ (getTotalInputBytes(r) \/ getTotalOutputBytes(r)) => C17_OnlyChanges(r, {})
    /\ \A w \in Writers :
          /\ (fw[w].pc = "idle" /\ fw'[w].pc = "store") => UNCHANGED <<setupVars, requestVars, globalConnStats, stats>>
          /\ setTotalCallFailuresStep(w) =>
                /\ C17_OnlyChanges(fw[w].rec, {"totalFailedCalls"})
                /\ \A i \in StatusCodes \ {fw[w].statusCode} :
                      stats'[fw[w].rec].totalFailedCalls[i] = stats[fw[w].rec].totalFailedCalls[i]
    /\ \A s \in Scrapers : sc'[s] # sc[s] => UNCHANGED <<setupVars, requestVars, globalConnStats, stats>>

C17_MutatorsChangeOwnFieldOnly == [][C17_Step]_vars

\* setMaxLatency on one record and setInputBytes on the other: each record
\* differs from a fresh one in that one field only.
C17_Witness ==
    /\ Present = {1, 2}
    /\ stats[1] = [newConnStats(EndpointName(1)) EXCEPT !.maxLatency = I64(FALSE, {10})]
    /\ stats[2] = [newConnStats(EndpointName(2)) EXCEPT !.totalInputBytes = {0, 53}]


(***************************************************************************)
(* C13: a failed registration at setup is fatal and surfaced.              *)
(***************************************************************************)

\* Registries metricsHandler's Register is tried on: the fresh one, and ones
\* where a collector already holds the name.
C13_Registries ==
    {NewRegistry, {CollectorRegistration}, {Registration(CollectorRegistration.fqName, "other")},
     {LatencyRegistration}}

\* The collectors the exporter registers are in registry, as its own.
C13_Registered(registry, cs) == cs \subseteq registry

\* C13: when the exporter cannot be registered at setup, setup fails and the
\* caller sees it: init leaves the process running only with both of its
\* registrations made, and aborts it otherwise, after which no handler is
\* returned and no scrape is served; metricsHandler returns no handler and
\* the error exactly when its Register fails; and every handler that was
\* returned gathers only from registries that hold the exporter's collector.
C13_RegistrationFailureIsFatal ==
    /\ process = "running" =>
          C13_Registered(defaultRegistry, {CollectorRegistration, LatencyRegistration})
    /\ process = "aborted" =>
          /\ ~C13_Registered(defaultRegistry, {CollectorRegistration, LatencyRegistration})
          /\ served = <<>>
          /\ scrape = IdleScrape
    /\ \A registry \in C13_Registries :
          LET failed == Register(registry, CollectorRegistration).err # "nil"
              result == metricsHandlerFrom(registry)
          IN  /\ failed <=> \E e \in registry : e.fqName = CollectorRegistration.fqName
              /\ failed => /\ result.handler = <<>>
                           /\ result.err = Register(registry, CollectorRegistration).err
              /\ ~failed => /\ result.err = "nil"
                            /\ Len(result.handler) = 1
                            /\ C13_Registered(result.handler[1].registry,
                                              {CollectorRegistration})
    /\ \A i \in DOMAIN served :
          /\ served[i].err = "nil" <=> served[i].handler # <<>>
          /\ \A j \in DOMAIN served[i].handler, g \in DOMAIN Gatherers :
                C13_Registered(GathererRegistry(served[i].handler[j], g),
                               {CollectorRegistration})
    /\ scrape.pc # "idle" => served[scrape.handler].handler # <<>>

\* init has met a name that another collector holds, and the process is dead.
C13_Witness ==
    /\ process = "aborted"
    /\ \E e \in defaultRegistry : e.collector = "other"
    /\ served = <<>>

(***************************************************************************)
(* C18: one scrape, one Collect.                                           *)
(***************************************************************************)

\* The (metric name, label values) of a sample.
C18_Key(m) == <<m.desc.fqName, m.labelValues>>

\* C18: a scrape that has been served ran Collect exactly once, and no
\* (metric name, endpoint[, status_code]) was produced twice in it.
C18_OneCollectPerScrape ==
    scrape.pc = "done" =>
        /\ scrape.collects = 1
        /\ \A i, j \in DOMAIN scrape.samples :
              C18_Key(scrape.samples[i]) = C18_Key(scrape.samples[j]) => i = j

(***************************************************************************)
(* C19: concurrent handlers that copy a growing total into a record.       *)
(***************************************************************************)

\* The number a stored total stands for.
C19_Value(v) == CHOOSE n \in 0 .. MaxTotal : Uint64(Int64Of(n)) = v

\* The claim as stated: no step makes a stored total smaller.
C19_Original_StoredNeverDecreases ==
    [][\A r \in Present, field \in TotalFields :
          C19_Value(stats'[r][field]) >= C19_Value(stats[r][field])]_vars

\* The store of handler h leaves the total that h read in its field.
C19_StoresWhatWasRead(h) ==
    stats'[rq[h].rec][rq[h].field] = Uint64(Int64Of(rq[h].total))

\* The store of handler h does not make its field smaller.
C19_DoesNotDecrease(h) ==
    C19_Value(stats'[rq[h].rec][rq[h].field]) >= C19_Value(stats[rq[h].rec][rq[h].field])

\* C19: with concurrent handlers that read the never-decreasing external
\* total and pass it to setTotalCalls, setInputBytes or setOutputBytes, a
\* stored total never exceeds the external total, every store leaves exactly
\* the total its handler read, and a store does not decrease the field unless
\* another handler stored to that field between this handler's read and its
\* store: the last writer wins, also with an older total.
C19_LastWriterWinsWithStaleTotals ==
    /\ [](\A r \in Present, field \in TotalFields :
            /\ stats[r][field] \in {Uint64(Int64Of(n)) : n \in 0 .. externalTotal}
            /\ \A h \in Handlers : rq[h].pc = "store" => rq[h].total <= externalTotal)
    /\ [][\A h \in Handlers :
            RequestStore(h) =>
               /\ C19_StoresWhatWasRead(h)
               /\ ~rq[h].overtaken => C19_DoesNotDecrease(h)]_vars

\* A handler is about to store a total smaller than the one another
\* handler, which read later, has stored meanwhile.
C19_Witness ==
    \E h \in Handlers :
        /\ rq[h].pc = "store"
        /\ rq[h].overtaken
        /\ rq[h].total < C19_Value(stats[rq[h].rec][rq[h].field])
        /\ lastArg[rq[h].rec][rq[h].field] # <<>>
====
